---- MODULE Spec2Model ----
(***************************************************************************)
(* Model of the crawl engine of src/crawler.js (crawlSite and its helpers  *)
(* normalizeUrl, sameOrigin, isCrawlable).                                  *)
(*                                                                         *)
(* A URL string is modelled by its text components                         *)
(*     [scheme, host, path, frag]                                          *)
(* e.g. "https://a/x#s" is U("https","a","/x","#s"), "https://a" is        *)
(* U("https","a","",""), "mailto:m" is U("mailto","","m","") and a string  *)
(* with no scheme (U("","","bad","")) is one that `new URL` rejects.       *)
(***************************************************************************)
EXTENDS Integers, Sequences, FiniteSets, TLC

VARIABLES
    pc,          \* position of crawlSite
    baseUrl,     \* argument baseUrl
    maxDepth,    \* opts.maxDepth
    maxPages,    \* opts.maxPages
    browser,     \* "none" | "open" | "closed"
    openPages,   \* number of pages opened by context.newPage() and not closed
    visited,     \* const visited = new Set()
    pages,       \* const pages = []
    queue,       \* const queue = [{url, depth}]
    processed,   \* let processed
    cur,         \* { url, depth } of the entry being visited (loop locals)
    details,     \* links returned by page.evaluate for the current page
    pageDepth,   \* history: crawl depth of each record of pages
    site,        \* the web site two concurrent calls crawl (what each page answers)
    other,       \* the locals of the second, suspended call of crawlSite
    active,      \* which of two concurrent calls the variables above belong to
    clock,       \* "running" | "elapsed": the overall run deadline of the caller
    http,        \* the request handled by index.js and its response
    probe        \* the inputs and results of normalizeUrl applied on its own

\* the state of one call of crawlSite
crawlVars == <<pc, baseUrl, maxDepth, maxPages, browser, openPages, visited, pages,
               queue, processed, cur, details, pageDepth>>

\* the state outside one call of crawlSite
aux == <<site, other, active, clock, http, probe>>

vars == <<pc, baseUrl, maxDepth, maxPages, browser, openPages, visited, pages,
          queue, processed, cur, details, pageDepth,
          site, other, active, clock, http, probe>>

----------------------------------------------------------------------------
(* Bounds of the model *)

MaxDepthMax == 2
MaxPagesMax == 4
MaxSiteLinks == 4
TwoMaxDepth == 1
TwoMaxPages == 2

----------------------------------------------------------------------------
(* URL strings *)

U(s, h, p, f) == [scheme |-> s, host |-> h, path |-> p, frag |-> f]

\* the string "null" (what URL.origin gives for an opaque origin)
NullStr == U("", "", "null", "")

\* the empty string
EmptyStr == U("", "", "", "")

\* schemes whose URLs have a tuple origin and a path that is never empty
SpecialSchemes == {"http", "https", "ftp"}

\* new URL(s) throws a TypeError for a string that is no absolute URL
CanParse(s) == s.scheme # ""

\* the host parser lower-cases the host of a special scheme
LowerHost(h) == IF h = "A" THEN "a" ELSE h

\* new URL(s): the parsed URL object
URLParse(s) ==
    [scheme   |-> s.scheme,
     host     |-> IF s.scheme \in SpecialSchemes THEN LowerHost(s.host) ELSE s.host,
     pathname |-> IF s.scheme \in SpecialSchemes /\ s.path = "" THEN "/" ELSE s.path,
     hash     |-> s.frag]

\* a URL with an opaque path ("mailto:m"): its pathname setter does nothing
HasOpaquePath(url) == url.scheme \notin SpecialSchemes /\ url.host = ""

\* url.toString()
URLToString(url) == U(url.scheme, url.host, url.pathname, url.hash)

\* url.origin
URLOrigin(url) ==
    IF url.scheme \in SpecialSchemes THEN U(url.scheme, url.host, "", "") ELSE NullStr

\* variant: the fragment is kept
normalizeUrl_keephash(u) ==
    IF CanParse(u)
    THEN LET url  == URLParse(u)
             url2 == IF url.pathname = "" /\ ~HasOpaquePath(url)
                     THEN [url EXCEPT !.pathname = "/"] ELSE url
         IN  URLToString(url2)
    ELSE u

\* lines 16-25: url.hash = ''; if (url.pathname === '') url.pathname = '/';
\* url.toString(); catch: return u
normalizeUrl(u) ==
    IF CanParse(u)
    THEN LET url  == [URLParse(u) EXCEPT !.hash = ""]
             url2 == IF url.pathname = "" /\ ~HasOpaquePath(url)
                     THEN [url EXCEPT !.pathname = "/"] ELSE url
         IN  URLToString(url2)
    ELSE u

\* variant: compares nothing but that both parse
sameOrigin_anyhost(a, b) == CanParse(a) /\ CanParse(b)

sameOrigin(a, b) ==
    IF CanParse(a) /\ CanParse(b)
    THEN URLOrigin(URLParse(a)) = URLOrigin(URLParse(b))
    ELSE FALSE

isCrawlable(href) ==
    IF href = EmptyStr THEN FALSE
    ELSE ~(href.scheme \in {"mailto", "tel", "javascript"})

----------------------------------------------------------------------------
(* Configuration *)

DEFAULTS_maxDepth == 1
sameOriginOnly == TRUE

\* the maxDepth argument: undefined, or a number
MaxDepthArgs ==
    {[type |-> "undefined", val |-> 0]} \cup
    {[type |-> "number", val |-> n] : n \in (0 - 1)..MaxDepthMax}

\* opts = { ...DEFAULTS, ...(typeof maxDepth === 'number' ? { maxDepth } : {}) }
OptsMaxDepth(arg) == IF arg.type = "number" THEN arg.val ELSE DEFAULTS_maxDepth

baseOrigin == URLOrigin(URLParse(baseUrl))

----------------------------------------------------------------------------
(* The inputs: seeds, and what a page's extraction can return *)

SeedA == U("https", "a", "", "")

Seeds == {SeedA, U("mailto", "", "m", ""), U("", "", "bad", "")}

\* a.href values found on pages (absolute, serialized by the page's URL parser)
Hrefs ==
    {U("https", "a", "/", "#s"),
     U("https", "a", "/x", ""),
     U("https", "a", "/x", "#s"),
     U("https", "a", "/y", ""),
     U("https", "b", "/", ""),
     U("mailto", "", "m", "")}

RECURSIVE SeqsUpTo(_, _)
SeqsUpTo(S, n) ==
    IF n = 0 THEN {<< >>}
    ELSE LET shorter == SeqsUpTo(S, n - 1)
         IN  shorter \cup {Append(s, x) : s \in shorter, x \in S}

\* the link lists of at most n links
LinkLists(n) == SeqsUpTo(Hrefs, n)

----------------------------------------------------------------------------
(* crawlSite *)

\* values of the state outside a single call of crawlSite
NoSite == << >>
NoRun == [pc |-> "none"]
NoRequest == [stage |-> "none"]
NoProbe == [stage |-> "none"]

Init ==
    /\ pc = "validate"
    /\ baseUrl \in Seeds
    /\ \E arg \in MaxDepthArgs : maxDepth = OptsMaxDepth(arg)
    /\ maxPages \in 1..MaxPagesMax
    /\ browser = "none"
    /\ openPages = 0
    /\ visited = {}
    /\ pages = << >>
    /\ queue = << >>
    /\ processed = 0
    /\ cur = [url |-> EmptyStr, depth |-> 0]
    /\ details = << >>
    /\ pageDepth = << >>
    /\ site = NoSite
    /\ other = NoRun
    /\ active = 1
    /\ clock = "running"
    /\ http = NoRequest
    /\ probe = NoProbe

\* line 45: const baseOrigin = new URL(baseUrl).origin
ValidateOk ==
    /\ pc = "validate"
    /\ CanParse(baseUrl)
    /\ pc' = "launch"
    /\ UNCHANGED <<baseUrl, maxDepth, maxPages, browser, openPages, visited, pages,
                   queue, processed, cur, details, pageDepth>>
    /\ UNCHANGED aux

ValidateThrow ==
    /\ pc = "validate"
    /\ ~CanParse(baseUrl)
    /\ pc' = "rejected"
    /\ UNCHANGED <<baseUrl, maxDepth, maxPages, browser, openPages, visited, pages,
                   queue, processed, cur, details, pageDepth>>
    /\ UNCHANGED aux

\* line 46: const browser = await chromium.launch(...)
LaunchOk ==
    /\ pc = "launch"
    /\ browser' = "open"
    /\ pc' = "context"
    /\ UNCHANGED <<baseUrl, maxDepth, maxPages, openPages, visited, pages,
                   queue, processed, cur, details, pageDepth>>
    /\ UNCHANGED aux

LaunchFail ==
    /\ pc = "launch"
    /\ pc' = "rejected"
    /\ UNCHANGED <<baseUrl, maxDepth, maxPages, browser, openPages, visited, pages,
                   queue, processed, cur, details, pageDepth>>
    /\ UNCHANGED aux

\* lines 50-55: const context = await browser.newContext(); visited, pages, queue, processed
ContextOk ==
    /\ pc = "context"
    /\ visited' = {}
    /\ pages' = << >>
    /\ queue' = <<[url |-> baseUrl, depth |-> 0]>>
    /\ processed' = 0
    /\ pc' = "loop"
    /\ UNCHANGED <<baseUrl, maxDepth, maxPages, browser, openPages, cur, details, pageDepth>>
    /\ UNCHANGED aux

ContextFail ==
    /\ pc = "context"
    /\ pc' = "rejected"
    /\ UNCHANGED <<baseUrl, maxDepth, maxPages, browser, openPages, visited, pages,
                   queue, processed, cur, details, pageDepth>>
    /\ UNCHANGED aux

\* variant: the budget test is off by one
BudgetReached_late == processed > maxPages

\* line 59: if (processed >= opts.maxPages) break
BudgetReached == processed >= maxPages

\* variant: no de-dupe check at dequeue
DepthOrVisitedRejects_nodedupe(url, depth) == depth > maxDepth

\* variant: the depth test rejects an entry at depth maxDepth
DepthOrVisitedRejects_strict(url, depth) ==
    depth >= maxDepth \/ normalizeUrl(url) \in visited

\* line 65: depth > opts.maxDepth || visited.has(normalized)
DepthOrVisitedRejects(url, depth) ==
    depth > maxDepth \/ normalizeUrl(url) \in visited

\* line 66: opts.sameOriginOnly && !sameOrigin(url, baseOrigin)
OriginRejects(url) == sameOriginOnly /\ ~sameOrigin(url, baseOrigin)

FilterRejects(url, depth) == DepthOrVisitedRejects(url, depth) \/ OriginRejects(url)

\* line 58/59: the while condition fails or the budget is reached; return at 306
LoopExit ==
    /\ pc = "loop"
    /\ queue = << >> \/ BudgetReached
    /\ pc' = "finally_return"
    /\ UNCHANGED <<baseUrl, maxDepth, maxPages, browser, openPages, visited, pages,
                   queue, processed, cur, details, pageDepth>>
    /\ UNCHANGED aux

\* variant: queue.pop() in place of queue.shift()
QueueShift_pop(q) == [entry |-> q[Len(q)], rest |-> SubSeq(q, 1, Len(q) - 1)]

\* line 61: queue.shift()
QueueShift(q) == [entry |-> Head(q), rest |-> Tail(q)]

\* variant: a discarded entry is counted
Skip_counted ==
    /\ pc = "loop"
    /\ queue # << >> /\ ~BudgetReached
    /\ LET e == QueueShift(queue).entry
       IN  /\ FilterRejects(e.url, e.depth)
           /\ cur' = e
    /\ queue' = QueueShift(queue).rest
    /\ processed' = processed + 1
    /\ UNCHANGED <<pc, baseUrl, maxDepth, maxPages, browser, openPages, visited, pages,
                   details, pageDepth>>
    /\ UNCHANGED aux

\* lines 61-66: queue.shift() and continue
Skip ==
    /\ pc = "loop"
    /\ queue # << >> /\ ~BudgetReached
    /\ LET e == QueueShift(queue).entry
       IN  /\ FilterRejects(e.url, e.depth)
           /\ cur' = e
    /\ queue' = QueueShift(queue).rest
    /\ UNCHANGED <<pc, baseUrl, maxDepth, maxPages, browser, openPages, visited, pages,
                   processed, details, pageDepth>>
    /\ UNCHANGED aux

\* lines 61-71: queue.shift(), visited.add(normalized), processed++, the delay
Accept ==
    /\ pc = "loop"
    /\ queue # << >> /\ ~BudgetReached
    /\ LET e == QueueShift(queue).entry
       IN  /\ ~FilterRejects(e.url, e.depth)
           /\ cur' = e
           /\ visited' = visited \cup {normalizeUrl(e.url)}
    /\ queue' = QueueShift(queue).rest
    /\ processed' = processed + 1
    /\ pc' = "goto"
    /\ UNCHANGED <<baseUrl, maxDepth, maxPages, browser, openPages, pages,
                   details, pageDepth>>
    /\ UNCHANGED aux

\* the record pushed at lines 85-90
DegradedRecord(url) == [urlRequested |-> url, status |-> "null", error |-> "message"]

\* the record pushed at lines 265-290
FullRecord(url, links) == [urlRequested |-> url, status |-> "200", links |-> links]

\* lines 73-82: newPage and page.goto succeed
NavOk ==
    /\ pc = "goto"
    /\ openPages' = openPages + 1
    /\ pc' = "evaluate"
    /\ UNCHANGED <<baseUrl, maxDepth, maxPages, browser, visited, pages,
                   queue, processed, cur, details, pageDepth>>
    /\ UNCHANGED aux

\* variant: no catch around page.goto
NavFail_abort ==
    /\ pc = "goto"
    /\ pc' = "finally_throw"
    /\ UNCHANGED <<baseUrl, maxDepth, maxPages, browser, openPages, visited, pages,
                   queue, processed, cur, details, pageDepth>>
    /\ UNCHANGED aux

\* variant: the catch pushes no record
NavFail_norecord ==
    /\ pc = "goto"
    /\ pc' = "loop"
    /\ UNCHANGED <<baseUrl, maxDepth, maxPages, browser, openPages, visited, pages,
                   queue, processed, cur, details, pageDepth>>
    /\ UNCHANGED aux

\* lines 73-93: page.goto throws; degraded record, page.close(), continue
NavFail ==
    /\ pc = "goto"
    /\ pages' = Append(pages, DegradedRecord(cur.url))
    /\ pageDepth' = Append(pageDepth, cur.depth)
    /\ pc' = "loop"
    /\ UNCHANGED <<baseUrl, maxDepth, maxPages, browser, openPages, visited,
                   queue, processed, cur, details>>
    /\ UNCHANGED aux

RECURSIVE LinkCount(_)
\* the number of links extracted so far in the run
LinkCount(ps) ==
    IF ps = << >> THEN 0
    ELSE (IF "links" \in DOMAIN Head(ps) THEN Len(Head(ps).links) ELSE 0)
         + LinkCount(Tail(ps))

\* lines 101-251: page.evaluate returns the extraction with these links
EvalGives(links) ==
    /\ pc = "evaluate"
    /\ details' = links
    /\ pc' = "cookies"
    /\ UNCHANGED <<baseUrl, maxDepth, maxPages, browser, openPages, visited, pages,
                   queue, processed, cur, pageDepth>>
    /\ UNCHANGED aux

\* lines 101-251: page.evaluate returns the extraction; the site has at most
\* MaxSiteLinks links on the pages of one run
EvalOk ==
    /\ pc = "evaluate"
    /\ \E links \in LinkLists(MaxSiteLinks - LinkCount(pages)) : EvalGives(links)

\* line 207: new URL(form action) throws inside page.evaluate; the rejection leaves
\* the while loop through the finally block
EvalThrow ==
    /\ pc = "evaluate"
    /\ pc' = "finally_throw"
    /\ UNCHANGED <<baseUrl, maxDepth, maxPages, browser, openPages, visited, pages,
                   queue, processed, cur, details, pageDepth>>
    /\ UNCHANGED aux

\* line 296/297: the links that pass the scope policy
Eligible(href) ==
    /\ isCrawlable(href)
    /\ ~(sameOriginOnly /\ ~sameOrigin(href, baseOrigin))

\* variant: every eligible link is pushed, visited or not
PushLink_always(q, href, nextDepth) ==
    IF Eligible(href)
    THEN Append(q, [url |-> href, depth |-> nextDepth])
    ELSE q

\* variant: the visited test is inverted
PushLink_inverted(q, href, nextDepth) ==
    IF Eligible(href) /\ normalizeUrl(href) \in visited
    THEN Append(q, [url |-> href, depth |-> nextDepth])
    ELSE q

\* line 299: if (!visited.has(norm)) queue.push(...)
PushLink(q, href, nextDepth) ==
    IF Eligible(href) /\ normalizeUrl(href) \notin visited
    THEN Append(q, [url |-> href, depth |-> nextDepth])
    ELSE q

RECURSIVE EnqueueLinks(_, _, _)
\* lines 295-300: for (const l of details.links) ...
EnqueueLinks(q, links, nextDepth) ==
    IF links = << >> THEN q
    ELSE EnqueueLinks(PushLink(q, Head(links), nextDepth), Tail(links), nextDepth)

\* variant: the depth budget of the children is one too large
EnqueueChildren_deeper(q, links, depth) ==
    IF depth <= maxDepth THEN EnqueueLinks(q, links, depth + 1) ELSE q

\* variant: the depth budget of the children is one too small
EnqueueChildren_short(q, links, depth) ==
    IF depth + 1 < maxDepth THEN EnqueueLinks(q, links, depth + 1) ELSE q

\* lines 293-301
EnqueueChildren(q, links, depth) ==
    IF depth + 1 <= maxDepth THEN EnqueueLinks(q, links, depth + 1) ELSE q

\* lines 262-303: cookies, the record, the children, page.close()
Record ==
    /\ pc = "cookies"
    /\ pages' = Append(pages, FullRecord(cur.url, details))
    /\ pageDepth' = Append(pageDepth, cur.depth)
    /\ queue' = EnqueueChildren(queue, details, cur.depth)
    /\ openPages' = openPages - 1
    /\ details' = << >>
    /\ pc' = "loop"
    /\ UNCHANGED <<baseUrl, maxDepth, maxPages, browser, visited, processed, cur>>
    /\ UNCHANGED aux

\* line 262: context.cookies(finalUrl) throws
CookiesThrow ==
    /\ pc = "cookies"
    /\ pc' = "finally_throw"
    /\ UNCHANGED <<baseUrl, maxDepth, maxPages, browser, openPages, visited, pages,
                   queue, processed, cur, details, pageDepth>>
    /\ UNCHANGED aux

\* lines 314-316 after the return at 306: the SiteModel reaches the caller
FinallyReturn ==
    /\ pc = "finally_return"
    /\ browser' = "closed"
    /\ pc' = "returned"
    /\ UNCHANGED <<baseUrl, maxDepth, maxPages, openPages, visited, pages,
                   queue, processed, cur, details, pageDepth>>
    /\ UNCHANGED aux

\* lines 314-316 after an exception in the loop: browser.close() takes the pages of
\* the browser with it, and the exception reaches the caller
FinallyThrow ==
    /\ pc = "finally_throw"
    /\ browser' = "closed"
    /\ openPages' = 0
    /\ pc' = "rejected"
    /\ UNCHANGED <<baseUrl, maxDepth, maxPages, visited, pages,
                   queue, processed, cur, details, pageDepth>>
    /\ UNCHANGED aux

Next ==
    \/ ValidateOk
    \/ ValidateThrow
    \/ LaunchOk
    \/ LaunchFail
    \/ ContextOk
    \/ ContextFail
    \/ LoopExit
    \/ Skip
    \/ Accept
    \/ NavOk
    \/ NavFail
    \/ EvalOk
    \/ EvalThrow
    \/ Record
    \/ CookiesThrow
    \/ FinallyReturn
    \/ FinallyThrow

Spec == Init /\ [][Next]_vars

TypeOK ==
    /\ pc \in {"validate", "launch", "context", "loop", "goto", "evaluate", "cookies",
               "finally_return", "finally_throw", "returned", "rejected"}
    /\ processed \in 0..MaxPagesMax
    /\ Len(pages) = Len(pageDepth)

\* the scheduler runs every continuation of crawlSite that is ready
FairSpec == Spec /\ WF_vars(Next)

----------------------------------------------------------------------------
(* crawlSite while time passes: a deadline set by the caller elapses at some *)
(* await of the loop (lines 71-262); crawlSite takes no deadline and reads   *)
(* no clock                                                                  *)

DeadlineElapses ==
    /\ clock = "running"
    /\ pc \in {"loop", "goto", "evaluate", "cookies"}
    /\ clock' = "elapsed"
    /\ UNCHANGED crawlVars
    /\ UNCHANGED <<site, other, active, http, probe>>

DeadlineNext == Next \/ DeadlineElapses

DeadlineSpec == Init /\ [][DeadlineNext]_vars

----------------------------------------------------------------------------
(* normalizeUrl applied to a string, and again to its result *)

\* no call of crawlSite is in progress
CrawlIdle ==
    /\ pc = "idle"
    /\ baseUrl = EmptyStr
    /\ maxDepth = DEFAULTS_maxDepth
    /\ maxPages = 1
    /\ browser = "none"
    /\ openPages = 0
    /\ visited = {}
    /\ pages = << >>
    /\ queue = << >>
    /\ processed = 0
    /\ cur = [url |-> EmptyStr, depth |-> 0]
    /\ details = << >>
    /\ pageDepth = << >>

ProbeSchemes == {"", "https", "http", "ftp", "mailto"}
ProbeHosts == {"", "a", "A"}
ProbePaths == {"", "/", "/x", "null"}
ProbeFrags == {"", "#s", "#t"}

\* the strings normalizeUrl is applied to
ProbeStrings ==
    {U(sc, h, pa, f) : sc \in ProbeSchemes, h \in ProbeHosts,
                       pa \in ProbePaths, f \in ProbeFrags}

NormInit ==
    /\ CrawlIdle
    /\ site = NoSite
    /\ other = NoRun
    /\ active = 1
    /\ clock = "running"
    /\ http = NoRequest
    /\ \E u \in ProbeStrings, f \in ProbeFrags :
          probe = [stage |-> "input", u |-> u, v |-> [u EXCEPT !.frag = f]]

\* normalizeUrl(u) and normalizeUrl(v)
NormalizeOnce ==
    /\ probe.stage = "input"
    /\ probe' = [stage |-> "once", u |-> probe.u, v |-> probe.v,
                 nu |-> normalizeUrl(probe.u), nv |-> normalizeUrl(probe.v)]
    /\ UNCHANGED crawlVars
    /\ UNCHANGED <<site, other, active, clock, http>>

\* normalizeUrl(normalizeUrl(u))
NormalizeAgain ==
    /\ probe.stage = "once"
    /\ probe' = [stage |-> "twice", u |-> probe.u, v |-> probe.v,
                 nu |-> probe.nu, nv |-> probe.nv, nnu |-> normalizeUrl(probe.nu)]
    /\ UNCHANGED crawlVars
    /\ UNCHANGED <<site, other, active, clock, http>>

NormNext == NormalizeOnce \/ NormalizeAgain

NormSpec == NormInit /\ [][NormNext]_vars

----------------------------------------------------------------------------
(* index.js: GET /crawl and POST /crawl around one call of crawlSite *)

\* values of a query or body parameter
Undefined == [type |-> "undefined"]
Null == [type |-> "null"]
QueryArray == [type |-> "array"]
Str(v) == [type |-> "string", val |-> v]
Num(n) == [type |-> "number", val |-> n]

\* a text: an optional minus sign, leading decimal digits (or none), the rest
Text(neg, hasDigits, digits, rest) ==
    [neg |-> neg, hasDigits |-> hasDigits, digits |-> digits, rest |-> rest]

\* "-1", "0", "1", "1.5", "abc"
DepthTexts ==
    {Text(TRUE, TRUE, 1, ""), Text(FALSE, TRUE, 0, ""), Text(FALSE, TRUE, 1, ""),
     Text(FALSE, TRUE, 1, ".5"), Text(FALSE, FALSE, 0, "abc")}

\* parseInt(text, 10): the leading integer, NaN when there is none
ParseInt(t) ==
    IF t.hasDigits
    THEN [nan |-> FALSE, val |-> IF t.neg THEN 0 - t.digits ELSE t.digits]
    ELSE [nan |-> TRUE, val |-> 0]

GetRequests ==
    [method : {"GET"},
     baseurl : {Undefined, QueryArray, Str(EmptyStr)} \cup {Str(b) : b \in Seeds},
     maxdepth : {Undefined} \cup {Str(t) : t \in DepthTexts}]

PostRequests ==
    [method : {"POST"},
     baseurl : {Undefined, Num(1), Str(EmptyStr)} \cup {Str(b) : b \in Seeds},
     maxdepth : {Undefined, Null, Str(Text(FALSE, TRUE, 1, ""))}
                \cup {Num(n) : n \in (0 - 1)..1}]

HttpInit ==
    /\ CrawlIdle
    /\ site = NoSite
    /\ other = NoRun
    /\ active = 1
    /\ clock = "running"
    /\ probe = NoProbe
    /\ \E r \in GetRequests \cup PostRequests :
          http = [stage |-> "received", method |-> r.method, baseurl |-> r.baseurl,
                  maxdepth |-> r.maxdepth, status |-> 0]

\* lines 46 and 78: !baseurl || typeof baseurl !== 'string'
BaseurlRejected(b) == b.type # "string" \/ b.val = EmptyStr

\* res.status(code).json(...)
Respond(code) ==
    http' = [http EXCEPT !.stage = "responded", !.status = code]

\* lines 62 and 89: crawlSite(baseurl, maxdepth) is called
Invoke(b, arg) ==
    /\ http' = [http EXCEPT !.stage = "crawling"]
    /\ pc' = "validate"
    /\ baseUrl' = b
    /\ maxDepth' = OptsMaxDepth(arg)
    /\ maxPages' \in 1..MaxPagesMax
    /\ UNCHANGED <<browser, openPages, visited, pages, queue, processed, cur,
                   details, pageDepth>>

\* lines 41-62
HandleGet ==
    /\ http.stage = "received"
    /\ http.method = "GET"
    /\ IF BaseurlRejected(http.baseurl)
       THEN Respond(400) /\ UNCHANGED crawlVars
       ELSE IF http.maxdepth.type = "undefined"
            THEN Invoke(http.baseurl.val, [type |-> "undefined", val |-> 0])
            ELSE LET maxdepth == ParseInt(http.maxdepth.val)
                 IN  IF maxdepth.nan
                     THEN Respond(400) /\ UNCHANGED crawlVars
                     ELSE Invoke(http.baseurl.val,
                                 [type |-> "number", val |-> maxdepth.val])
    /\ UNCHANGED <<site, other, active, clock, probe>>

\* lines 74-89
HandlePost ==
    /\ http.stage = "received"
    /\ http.method = "POST"
    /\ IF BaseurlRejected(http.baseurl)
       THEN Respond(400) /\ UNCHANGED crawlVars
       ELSE IF http.maxdepth.type # "undefined" /\ http.maxdepth.type # "number"
            THEN Respond(400) /\ UNCHANGED crawlVars
            ELSE Invoke(http.baseurl.val,
                        IF http.maxdepth.type = "number"
                        THEN [type |-> "number", val |-> http.maxdepth.val]
                        ELSE [type |-> "undefined", val |-> 0])
    /\ UNCHANGED <<site, other, active, clock, probe>>

\* lines 63 and 90: res.status(200).json(siteModel)
Respond200 ==
    /\ http.stage = "crawling"
    /\ pc = "returned"
    /\ Respond(200)
    /\ UNCHANGED crawlVars
    /\ UNCHANGED <<site, other, active, clock, probe>>

\* lines 64-67 and 91-97: the catch answers 500
Respond500 ==
    /\ http.stage = "crawling"
    /\ pc = "rejected"
    /\ Respond(500)
    /\ UNCHANGED crawlVars
    /\ UNCHANGED <<site, other, active, clock, probe>>

HttpNext ==
    \/ HandleGet
    \/ HandlePost
    \/ Respond200
    \/ Respond500
    \/ Next

HttpSpec == HttpInit /\ [][HttpNext]_vars

----------------------------------------------------------------------------
(* Two calls of crawlSite in one process, against one site. One call runs   *)
(* at a time; at an await the event loop may resume the other call.         *)

\* the pages of the site
SiteForms == {U("https", "a", "/", ""), U("https", "a", "/x", "")}

\* what a fetch of a page gives: page.goto throws, page.evaluate throws,
\* context.cookies throws, or the links of the page
Outcome(kind, links) == [kind |-> kind, links |-> links]

SiteOutcomes ==
    {Outcome("fail", << >>), Outcome("throw", << >>), Outcome("cookies", << >>),
     Outcome("links", <<U("https", "a", "/x", "")>>),
     Outcome("links", <<U("https", "a", "/x", ""), U("https", "a", "/", "#s"),
                        U("https", "a", "/x", "#s")>>)}

RECURSIVE SiteLinkCount(_, _)
SiteLinkCount(f, forms) ==
    IF forms = {} THEN 0
    ELSE LET n == CHOOSE x \in forms : TRUE
         IN  Len(f[n].links) + SiteLinkCount(f, forms \ {n})

Sites ==
    {f \in [SiteForms -> SiteOutcomes] : SiteLinkCount(f, SiteForms) <= MaxSiteLinks}

\* the request for a URL carries no fragment
Served(u) == site[U(u.scheme, u.host, IF u.path = "" THEN "/" ELSE u.path, "")]

\* lines 39-55 and the position in the body: the locals of one call
RunState ==
    [pc |-> pc, baseUrl |-> baseUrl, maxDepth |-> maxDepth, maxPages |-> maxPages,
     browser |-> browser, openPages |-> openPages, visited |-> visited,
     pages |-> pages, queue |-> queue, processed |-> processed, cur |-> cur,
     details |-> details, pageDepth |-> pageDepth]

\* the locals of a call that has not started
NewRun(b, arg, mp) ==
    [pc |-> "validate", baseUrl |-> b, maxDepth |-> OptsMaxDepth(arg), maxPages |-> mp,
     browser |-> "none", openPages |-> 0, visited |-> {}, pages |-> << >>,
     queue |-> << >>, processed |-> 0, cur |-> [url |-> EmptyStr, depth |-> 0],
     details |-> << >>, pageDepth |-> << >>]

\* the maxDepth argument of each of the two calls
TwoDepthArgs ==
    {[type |-> "undefined", val |-> 0]} \cup
    {[type |-> "number", val |-> n] : n \in 0..TwoMaxDepth}

TwoInit ==
    /\ pc = "validate"
    /\ baseUrl \in Seeds
    /\ \E arg \in TwoDepthArgs : maxDepth = OptsMaxDepth(arg)
    /\ maxPages \in 1..TwoMaxPages
    /\ browser = "none"
    /\ openPages = 0
    /\ visited = {}
    /\ pages = << >>
    /\ queue = << >>
    /\ processed = 0
    /\ cur = [url |-> EmptyStr, depth |-> 0]
    /\ details = << >>
    /\ pageDepth = << >>
    /\ site \in Sites
    /\ \E b \in Seeds, arg \in TwoDepthArgs, mp \in 1..TwoMaxPages :
          other = NewRun(b, arg, mp)
    /\ active = 1
    /\ clock = "running"
    /\ http = NoRequest
    /\ probe = NoProbe

\* variant: visited is a Set of the module, shared by the calls
VisitedOf_shared(run) == visited

\* line 52: const visited = new Set() is a local of the call
VisitedOf(run) == run.visited

\* the event loop resumes the other call; each call continues with its own locals
Switch ==
    /\ other.pc \notin {"none", "returned", "rejected"}
    /\ other' = RunState
    /\ active' = 3 - active
    /\ pc' = other.pc
    /\ baseUrl' = other.baseUrl
    /\ maxDepth' = other.maxDepth
    /\ maxPages' = other.maxPages
    /\ browser' = other.browser
    /\ openPages' = other.openPages
    /\ visited' = VisitedOf(other)
    /\ pages' = other.pages
    /\ queue' = other.queue
    /\ processed' = other.processed
    /\ cur' = other.cur
    /\ details' = other.details
    /\ pageDepth' = other.pageDepth
    /\ UNCHANGED <<site, clock, http, probe>>

\* lines 101-251: page.evaluate returns the links of the page the site serves (a
\* site has at most MaxSiteLinks links in all)
EvalSite ==
    /\ pc = "evaluate"
    /\ Served(cur.url).kind # "throw"
    /\ EvalGives(Served(cur.url).links)

\* the step of the running call gets from the site what the site serves
SiteAgrees ==
    /\ pc = "goto" => (pc' = "loop" <=> Served(cur.url).kind = "fail")
    /\ pc = "evaluate" =>
          IF Served(cur.url).kind = "throw" THEN pc' = "finally_throw"
          ELSE /\ pc' = "cookies"
               /\ details' = Served(cur.url).links
    /\ pc = "cookies" => (pc' = "finally_throw" <=> Served(cur.url).kind = "cookies")

TwoNext ==
    \/ Switch
    \/ ValidateOk /\ SiteAgrees
    \/ ValidateThrow /\ SiteAgrees
    \/ LaunchOk /\ SiteAgrees
    \/ LaunchFail /\ SiteAgrees
    \/ ContextOk /\ SiteAgrees
    \/ ContextFail /\ SiteAgrees
    \/ LoopExit /\ SiteAgrees
    \/ Skip /\ SiteAgrees
    \/ Accept /\ SiteAgrees
    \/ NavOk /\ SiteAgrees
    \/ NavFail /\ SiteAgrees
    \/ EvalSite /\ SiteAgrees
    \/ EvalThrow /\ SiteAgrees
    \/ Record /\ SiteAgrees
    \/ CookiesThrow /\ SiteAgrees
    \/ FinallyReturn /\ SiteAgrees
    \/ FinallyThrow /\ SiteAgrees

TwoSpec == TwoInit /\ [][TwoNext]_vars

----------------------------------------------------------------------------
(* Notions of the specification, stated on the text of a URL and independent *)
(* of the helpers above                                                      *)

IsHttpUrl(u) == u.scheme \in {"http", "https"}

\* the URL without its fragment and with a path
NormalForm(u) == U(u.scheme, u.host, IF u.path = "" THEN "/" ELSE u.path, "")

\* scheme + host (+ port) of the two URLs agree
SameOriginAsSeed(u) ==
    /\ IsHttpUrl(u)
    /\ IsHttpUrl(baseUrl)
    /\ u.scheme = baseUrl.scheme
    /\ u.host = baseUrl.host

\* a URL the crawl may visit: crawlable and in scope
InScope(u) ==
    /\ u.scheme \notin {"", "mailto", "tel", "javascript"}
    /\ (sameOriginOnly => SameOriginAsSeed(u))

PageIndexes == 1..Len(pages)

IsDegraded(p) == "error" \in DOMAIN p

RequestedForms == {NormalForm(pages[i].urlRequested) : i \in PageIndexes}

\* the links extracted from the page with normal form n (none when it failed
\* or was not fetched)
LinksOfForm(n) ==
    IF \E i \in PageIndexes :
          NormalForm(pages[i].urlRequested) = n /\ ~IsDegraded(pages[i])
    THEN pages[CHOOSE i \in PageIndexes :
                  NormalForm(pages[i].urlRequested) = n /\ ~IsDegraded(pages[i])].links
    ELSE << >>

ScopedForms(links) ==
    {NormalForm(links[j]) : j \in {k \in 1..Len(links) : InScope(links[k])}}

RECURSIVE ReachWithin(_)
\* normal forms reachable from the seed in at most k link hops
ReachWithin(k) ==
    IF k < 0 THEN {}
    ELSE IF k = 0 THEN (IF InScope(baseUrl) THEN {NormalForm(baseUrl)} ELSE {})
    ELSE LET R == ReachWithin(k - 1)
         IN  R \cup UNION {ScopedForms(LinksOfForm(n)) : n \in R}

Returned == pc = "returned"

----------------------------------------------------------------------------
(* C1: processed never exceeds maxPages; once processed has reached maxPages *)
(* no entry leaves the frontier and nothing more is counted; a run that      *)
(* returns with entries still queued, or whose reachable set holds at least  *)
(* maxPages URLs, returns exactly maxPages records.                          *)

C1_BudgetState ==
    /\ processed <= maxPages
    /\ (Returned /\ queue # << >>) => Len(pages) = maxPages
    /\ (Returned /\ Cardinality(ReachWithin(maxDepth)) >= maxPages)
          => Len(pages) = maxPages

C1_BudgetStep ==
    (processed >= maxPages) =>
        /\ Len(queue') >= Len(queue)
        /\ processed' = processed
        /\ pc' # "goto"

C1_Budget == [](C1_BudgetState) /\ [][C1_BudgetStep]_vars

C1_Witness ==
    /\ Returned
    /\ maxPages = 1
    /\ Len(pages) = 1
    /\ Len(queue) = 2
    /\ \A i \in 1..Len(queue) : InScope(queue[i].url)

----------------------------------------------------------------------------
(* C2: a normal form enters the visited set at most once and never leaves   *)
(* it; processed <= |visited|; no two records have requested URLs with the  *)
(* same normal form; a URL whose navigation failed is not fetched again.    *)

C2_VisitedState ==
    /\ processed <= Cardinality(visited)
    /\ \A i, j \in PageIndexes :
          NormalForm(pages[i].urlRequested) = NormalForm(pages[j].urlRequested) => i = j
    /\ pc \in {"goto", "evaluate", "cookies"} =>
          \A i \in PageIndexes :
             NormalForm(pages[i].urlRequested) # NormalForm(cur.url)
    /\ \A i \in PageIndexes : NormalForm(pages[i].urlRequested) \in visited

C2_VisitedStep ==
    /\ pc # "context" => visited \subseteq visited'
    /\ processed' # processed /\ pc # "context" =>
          /\ processed' = processed + 1
          /\ NormalForm(cur'.url) \notin visited
          /\ visited' = visited \cup {NormalForm(cur'.url)}
    /\ visited' # visited => processed' = processed + 1

C2_VisitedOnce == [](C2_VisitedState) /\ [][C2_VisitedStep]_vars

\* the page "https://a/x" failed and the later entry "https://a/x#s" for it was
\* discarded
C2_Witness ==
    /\ Returned
    /\ Len(pages) = 2
    /\ IsDegraded(pages[2])
    /\ queue = << >>
    /\ \E j \in 1..Len(pages[1].links) :
          /\ pages[1].links[j] # pages[2].urlRequested
          /\ NormalForm(pages[1].links[j]) = NormalForm(pages[2].urlRequested)

----------------------------------------------------------------------------
(* C3: from every state of the crawl loop the run eventually reaches Done:  *)
(* the loop is left with the frontier empty or processed = maxPages and the *)
(* SiteModel is returned.                                                   *)

Done ==
    /\ pc \in {"finally_return", "returned"}
    /\ (queue = << >> \/ processed = maxPages)

C3_LoopReachesDone == (pc = "loop") ~> Done

----------------------------------------------------------------------------
(* C4: a failed navigation appends exactly one degraded record (status null, *)
(* an error message, no extraction) for the URL being visited, pushes no     *)
(* link, counts nothing more and returns to the loop head; when the seed's   *)
(* navigation fails the run still returns, with that one record.             *)

C4_NavFailStep ==
    (pc = "goto" /\ pc' # "evaluate") =>
        /\ pc' = "loop"
        /\ Len(pages') = Len(pages) + 1
        /\ SubSeq(pages', 1, Len(pages)) = pages
        /\ LET r == pages'[Len(pages')]
           IN  /\ r.urlRequested = cur.url
               /\ r.status = "null"
               /\ IsDegraded(r)
               /\ "links" \notin DOMAIN r
        /\ queue' = queue
        /\ processed' = processed
        /\ visited' = visited

C4_SeedFailedState ==
    (Len(pages) >= 1 /\ IsDegraded(pages[1])) =>
        /\ pages[1].urlRequested = baseUrl
        /\ pc \in {"loop", "finally_return", "returned"}
        /\ queue = << >>
        /\ Len(pages) = 1

C4_NavFailIsolated == [][C4_NavFailStep]_vars /\ [](C4_SeedFailedState)

\* the second page failed and the third was still visited and extracted
C4_Witness ==
    /\ Returned
    /\ Len(pages) = 3
    /\ IsDegraded(pages[2])
    /\ ~IsDegraded(pages[3])

----------------------------------------------------------------------------
(* C5: a failure of the extraction or of the cookie read of one page never  *)
(* ends the run: once a page has been counted, crawlSite does not fail.     *)

C5_PageFailuresAbsorbed ==
    processed > 0 => pc \notin {"finally_throw", "rejected"}

----------------------------------------------------------------------------
(* C6: no entry deeper than maxDepth is visited or recorded, no child is    *)
(* pushed deeper than maxDepth; with maxDepth = 0 the frontier is empty     *)
(* once the seed is counted and a returned run has the seed's record only.  *)

C6_DepthBound ==
    /\ \A i \in PageIndexes : pageDepth[i] <= maxDepth
    /\ pc \in {"goto", "evaluate", "cookies"} => cur.depth <= maxDepth
    /\ \A i \in 1..Len(queue) : queue[i].depth >= 1 => queue[i].depth <= maxDepth
    /\ (maxDepth = 0 /\ processed >= 1) => queue = << >>
    /\ (maxDepth = 0 /\ Returned /\ IsHttpUrl(baseUrl)) =>
          /\ Len(pages) = 1
          /\ pages[1].urlRequested = baseUrl

\* maxDepth = 0 and the seed's extraction found two links in scope
C6_Witness ==
    /\ Returned
    /\ maxDepth = 0
    /\ Len(pages) = 1
    /\ ~IsDegraded(pages[1])
    /\ Len(pages[1].links) = 2
    /\ \A j \in 1..Len(pages[1].links) :
          /\ InScope(pages[1].links[j])
          /\ NormalForm(pages[1].links[j]) # NormalForm(baseUrl)

----------------------------------------------------------------------------
(* C7: with sameOriginOnly, every record's requested URL has the origin of  *)
(* the seed, and so has the URL being visited.                              *)

C7_OriginScoped ==
    sameOriginOnly =>
        /\ \A i \in PageIndexes : SameOriginAsSeed(pages[i].urlRequested)
        /\ pc \in {"goto", "evaluate", "cookies"} => SameOriginAsSeed(cur.url)

\* the seed linked to another origin and to a page of its own origin
C7_Witness ==
    /\ Returned
    /\ Len(pages) = 2
    /\ ~IsDegraded(pages[1])
    /\ \E j \in 1..Len(pages[1].links) : pages[1].links[j].host = "b"
    /\ processed < maxPages

----------------------------------------------------------------------------
(* C8: in every returned SiteModel the number of records equals processed.  *)

C8_CountMatches == Returned => Len(pages) = processed

\* a failed page, extracted pages, a link out of scope and a discarded entry
C8_Witness ==
    /\ Returned
    /\ Len(pages) = 3
    /\ processed = 3
    /\ \E i \in PageIndexes : IsDegraded(pages[i])
    /\ \E j \in 1..Len(pages[1].links) : ~InScope(pages[1].links[j])
    /\ cur.url # pages[3].urlRequested

----------------------------------------------------------------------------
(* C9: a run that returns with the budget not reached has exactly one       *)
(* record for each normal form that is in scope and within maxDepth hops of *)
(* the seed, and no other record.                                           *)

C9_ExactlyReachable ==
    (Returned /\ processed < maxPages) =>
        /\ RequestedForms = ReachWithin(maxDepth)
        /\ Cardinality(RequestedForms) = Len(pages)

\* three pages at depths 0, 1, 2, a link to the seed itself and one out of scope
C9_Witness ==
    /\ Returned
    /\ processed < maxPages
    /\ maxDepth = 2
    /\ pageDepth = <<0, 1, 2>>
    /\ \E j \in 1..Len(pages[1].links) :
          NormalForm(pages[1].links[j]) = NormalForm(baseUrl)
    /\ \E j \in 1..Len(pages[2].links) : pages[2].links[j].host = "b"

----------------------------------------------------------------------------
(* C10: the returned sequence is in breadth-first level order: depths are   *)
(* non-decreasing, each URL is recorded at its least link distance from the *)
(* seed, and the sequence is a prefix of the level-order listing of the     *)
(* link graph, which does not depend on maxPages.                           *)

FormsOf(seq) == {NormalForm(seq[i]) : i \in 1..Len(seq)}

RECURSIVE AppendNew(_, _, _)
\* acc extended by the links in scope whose normal form is not yet listed
AppendNew(acc, seen, links) ==
    IF links = << >> THEN acc
    ELSE LET l == Head(links)
         IN  IF InScope(l) /\ NormalForm(l) \notin (seen \cup FormsOf(acc))
             THEN AppendNew(Append(acc, l), seen, Tail(links))
             ELSE AppendNew(acc, seen, Tail(links))

RECURSIVE ChildrenOf(_, _, _)
\* the next level: the new links of the pages of `level`, in order
ChildrenOf(level, acc, seen) ==
    IF level = << >> THEN acc
    ELSE ChildrenOf(Tail(level),
                    AppendNew(acc, seen, LinksOfForm(NormalForm(Head(level)))),
                    seen)

RECURSIVE LevelsFrom(_, _, _)
LevelsFrom(level, seen, d) ==
    IF level = << >> \/ d > maxDepth THEN << >>
    ELSE LET next == ChildrenOf(level, << >>, seen)
         IN  level \o LevelsFrom(next, seen \cup FormsOf(next), d + 1)

LevelOrder ==
    IF InScope(baseUrl)
    THEN LevelsFrom(<<baseUrl>>, {NormalForm(baseUrl)}, 0)
    ELSE << >>

C10_LevelOrder ==
    Returned =>
        /\ \A i, j \in PageIndexes : i <= j => pageDepth[i] <= pageDepth[j]
        /\ \A i \in PageIndexes :
              /\ NormalForm(pages[i].urlRequested) \in ReachWithin(pageDepth[i])
              /\ NormalForm(pages[i].urlRequested) \notin ReachWithin(pageDepth[i] - 1)
        /\ Len(pages) <= Len(LevelOrder)
        /\ \A i \in PageIndexes : pages[i].urlRequested = LevelOrder[i]

\* the third page is linked from the seed and from the second page, and the
\* budget cut the run with an entry still queued
C10_Witness ==
    /\ Returned
    /\ pageDepth = <<0, 1, 1>>
    /\ ~IsDegraded(pages[2])
    /\ \E j \in 1..Len(pages[2].links) :
          NormalForm(pages[2].links[j]) = NormalForm(pages[3].urlRequested)
    /\ processed = maxPages
    /\ queue # << >>

----------------------------------------------------------------------------
(* C11: whenever crawlSite has ended, by a return or by an exception, the   *)
(* browser it launched is closed.                                           *)

C11_BrowserClosedAtEnd ==
    pc \in {"returned", "rejected"} => browser # "open"

----------------------------------------------------------------------------
(* C12: at most one page is open at a time, and no page is open at the loop *)
(* head or once the loop has been left, whichever way the visit ended.      *)

C12_PageClosedAfterVisit ==
    /\ openPages <= 1
    /\ pc \in {"loop", "finally_return", "finally_throw", "returned", "rejected"}
          => openPages = 0

----------------------------------------------------------------------------
(* C15: a browser is launched only for a seed that parses as an absolute    *)
(* http or https URL; any other seed fails before the launch.               *)

C15_SeedValidatedBeforeLaunch ==
    (pc # "validate" /\ ~(CanParse(baseUrl) /\ IsHttpUrl(baseUrl))) =>
        /\ pc = "rejected"
        /\ browser = "none"

----------------------------------------------------------------------------
(* C18: when the record of a page at depth d with d+1 <= maxDepth is pushed, *)
(* the frontier gains, in order, one entry at depth d+1 for every link in    *)
(* scope, visited or not (as stated); in the code, for every link in scope   *)
(* whose normal form is not in the visited set at that time, and the visited *)
(* test is applied again at dequeue.                                         *)

ScopedLinks(links) == SelectSeq(links, InScope)

NotVisited(l) == NormalForm(l) \notin visited

EntriesAt(links, d) == [i \in 1..Len(links) |-> [url |-> links[i], depth |-> d]]

RecordStep == pc = "cookies" /\ pc' = "loop"

C18_PushesEveryEligible ==
    [][RecordStep =>
          queue' = queue \o (IF cur.depth + 1 <= maxDepth
                             THEN EntriesAt(ScopedLinks(details), cur.depth + 1)
                             ELSE << >>)]_vars

C18_PushesEligibleUnvisited ==
    [][/\ RecordStep =>
             queue' = queue \o
                (IF cur.depth + 1 <= maxDepth
                 THEN EntriesAt(SelectSeq(ScopedLinks(details), NotVisited),
                                cur.depth + 1)
                 ELSE << >>)
       /\ (pc = "loop" /\ pc' = "goto") => NormalForm(cur'.url) \notin visited]_vars

\* the page just recorded linked to itself (visited, not pushed) and to a page not
\* yet visited (pushed)
C18_Witness ==
    /\ pc = "loop"
    /\ Len(pages) >= 1
    /\ ~IsDegraded(pages[Len(pages)])
    /\ cur.url = pages[Len(pages)].urlRequested
    /\ cur.depth + 1 <= maxDepth
    /\ \E j \in 1..Len(pages[Len(pages)].links) :
          NormalForm(pages[Len(pages)].links[j]) = NormalForm(cur.url)
    /\ queue # << >>
    /\ queue[Len(queue)].depth = cur.depth + 1
    /\ \A i \in 1..Len(queue) : NormalForm(queue[i].url) # NormalForm(cur.url)

----------------------------------------------------------------------------
(* C19: an entry discarded by the filter leaves processed, pages and the    *)
(* visited set unchanged; a link out of scope is not pushed and changes     *)
(* none of them; a record with an error field is appended only by the       *)
(* failed navigation of the entry that passed the filter.                   *)

SpecFilterRejects(e) ==
    \/ e.depth > maxDepth
    \/ NormalForm(e.url) \in visited
    \/ (sameOriginOnly /\ ~SameOriginAsSeed(e.url))

C19_DiscardStep ==
    (pc = "loop" /\ queue # << >> /\ queue' # queue /\ SpecFilterRejects(Head(queue))) =>
        /\ queue' = Tail(queue)
        /\ processed' = processed
        /\ pages' = pages
        /\ visited' = visited
        /\ pc' = "loop"

C19_DroppedLinkStep ==
    RecordStep =>
        /\ processed' = processed
        /\ visited' = visited
        /\ pages' = Append(pages, pages'[Len(pages')])
        /\ ~IsDegraded(pages'[Len(pages')])
        /\ \A i \in 1..Len(queue') : i > Len(queue) => InScope(queue'[i].url)

C19_ErrorStep ==
    (Len(pages') > Len(pages) /\ IsDegraded(pages'[Len(pages')])) =>
        /\ pc = "goto"
        /\ pages' = Append(pages, pages'[Len(pages')])
        /\ pages'[Len(pages')].urlRequested = cur.url
        /\ cur.depth <= maxDepth
        /\ InScope(cur.url)

C19_SilentDiscard ==
    [][C19_DiscardStep /\ C19_DroppedLinkStep /\ C19_ErrorStep]_vars

\* an entry was discarded as visited, a link out of scope was dropped, and the
\* only error record is that of a page whose navigation failed
C19_Witness ==
    /\ Returned
    /\ Len(pages) = 2
    /\ ~IsDegraded(pages[1])
    /\ IsDegraded(pages[2])
    /\ Len(pages[1].links) = 3
    /\ \E j \in 1..3 : ~InScope(pages[1].links[j])
    /\ \E j, k \in 1..3 :
          /\ j < k
          /\ InScope(pages[1].links[j])
          /\ pages[1].links[j] # pages[1].links[k]
          /\ NormalForm(pages[1].links[j]) = NormalForm(pages[1].links[k])
    /\ processed = 2

----------------------------------------------------------------------------
(* C20: the run returns the records and the stats of the specified machine, *)
(* which pushes every link in scope and tests the visited set at dequeue    *)
(* only, run on the same site with the same maxDepth and maxPages.          *)

FailedForm(n) ==
    \E i \in PageIndexes : NormalForm(pages[i].urlRequested) = n /\ IsDegraded(pages[i])

RECURSIVE SpecRun(_, _, _, _)
\* the specified machine from frontier q, visited set vis, records out, counter n
SpecRun(q, vis, out, n) ==
    IF q = << >> \/ n >= maxPages
    THEN [pages |-> out, uniqueVisited |-> Cardinality(vis), processed |-> n]
    ELSE LET e == Head(q)
         IN  IF \/ e.depth > maxDepth
                \/ NormalForm(e.url) \in vis
                \/ (sameOriginOnly /\ ~SameOriginAsSeed(e.url))
             THEN SpecRun(Tail(q), vis, out, n)
             ELSE LET form == NormalForm(e.url)
                      kids == IF FailedForm(form) \/ e.depth + 1 > maxDepth
                              THEN << >>
                              ELSE EntriesAt(ScopedLinks(LinksOfForm(form)), e.depth + 1)
                  IN  SpecRun(Tail(q) \o kids, vis \cup {form}, Append(out, e), n + 1)

C20_SameAsSpecifiedMachine ==
    Returned =>
        LET ref == SpecRun(<<[url |-> baseUrl, depth |-> 0]>>, {}, << >>, 0)
        IN  /\ Len(ref.pages) = Len(pages)
            /\ \A i \in PageIndexes :
                  /\ ref.pages[i].url = pages[i].urlRequested
                  /\ ref.pages[i].depth = pageDepth[i]
            /\ ref.processed = processed
            /\ ref.uniqueVisited = Cardinality(visited)

\* the second page linked back to the seed and to itself (both visited, not
\* pushed) and to a third page, which was visited
C20_Witness ==
    /\ Returned
    /\ Len(pages) = 3
    /\ pageDepth = <<0, 1, 2>>
    /\ ~IsDegraded(pages[2])
    /\ Len(pages[2].links) = 3
    /\ \E j \in 1..3 : NormalForm(pages[2].links[j]) = NormalForm(baseUrl)
    /\ \E j \in 1..3 :
          NormalForm(pages[2].links[j]) = NormalForm(pages[2].urlRequested)

----------------------------------------------------------------------------
(* C14: once the deadline has elapsed, no further entry leaves the frontier *)
(* and nothing more is counted: from the loop head the run goes to its      *)
(* normal return; the visit in flight may finish.                           *)

C14_NoDequeueAfterDeadline ==
    [][(clock = "elapsed" /\ pc = "loop") =>
          /\ queue' = queue
          /\ processed' = processed
          /\ pc' = "finally_return"]_vars

----------------------------------------------------------------------------
(* C17: for a string that parses, normalizing twice gives what normalizing  *)
(* once gives, the result has no fragment, and a string that differs from   *)
(* it only in the fragment has the same result; a string that does not      *)
(* parse is returned unchanged.                                             *)

C17_NormalizeIdempotent ==
    probe.stage = "twice" =>
        /\ probe.u.scheme # "" =>
              /\ probe.nnu = probe.nu
              /\ probe.nv = probe.nu
              /\ probe.nu.frag = ""
        /\ probe.u.scheme = "" => probe.nu = probe.u

\* "https://A#s" and "https://A#t": the host, the path and the fragment all change
C17_Witness ==
    /\ probe.stage = "twice"
    /\ probe.u.scheme = "https"
    /\ probe.u.host = "A"
    /\ probe.u.path = ""
    /\ probe.u.frag = "#s"
    /\ probe.v.frag = "#t"
    /\ probe.nu # probe.u
    /\ probe.nu = probe.nnu

----------------------------------------------------------------------------
(* C16: a request whose seed is missing or malformed, or whose depth        *)
(* override is present and not a non-negative integer, is answered 400 and  *)
(* crawlSite is never called for it; a request answered 500 was valid.      *)

SeedMissingOrMalformed(r) ==
    \/ r.baseurl.type # "string"
    \/ r.baseurl.val.scheme = ""

NonNegativeInteger(md) ==
    \/ md.type = "number" /\ md.val >= 0
    \/ /\ md.type = "string"
       /\ ~md.val.neg
       /\ md.val.hasDigits
       /\ md.val.rest = ""

InvalidRequest(r) ==
    \/ SeedMissingOrMalformed(r)
    \/ r.maxdepth.type # "undefined" /\ ~NonNegativeInteger(r.maxdepth)

C16_InvalidRequestGets400 ==
    /\ (http.stage \in {"crawling", "responded"} /\ InvalidRequest(http)) =>
          /\ http.stage = "responded"
          /\ http.status = 400
          /\ pc = "idle"
    /\ (http.stage = "responded" /\ http.status = 500) => ~InvalidRequest(http)

----------------------------------------------------------------------------
(* C13: a step of the running call leaves the locals of the suspended call  *)
(* unchanged, resuming a call gives it back exactly the locals it was       *)
(* suspended with, and a call that returns while the other is in progress   *)
(* returns the records and stats the specified machine gives alone on the   *)
(* same site.                                                               *)

RECURSIVE SiteRun(_, _, _, _)
\* the specified machine alone on the site, from frontier q, visited set vis,
\* records out and counter n
SiteRun(q, vis, out, n) ==
    IF q = << >> \/ n >= maxPages
    THEN [ok |-> TRUE, pages |-> out, uniqueVisited |-> Cardinality(vis),
          processed |-> n]
    ELSE LET e == Head(q)
         IN  IF \/ e.depth > maxDepth
                \/ NormalForm(e.url) \in vis
                \/ (sameOriginOnly /\ ~SameOriginAsSeed(e.url))
             THEN SiteRun(Tail(q), vis, out, n)
             ELSE LET o == site[NormalForm(e.url)]
                      kids == IF o.kind = "fail" \/ e.depth + 1 > maxDepth
                              THEN << >>
                              ELSE EntriesAt(ScopedLinks(o.links), e.depth + 1)
                  IN  IF o.kind \in {"throw", "cookies"}
                      THEN [ok |-> FALSE, pages |-> out,
                            uniqueVisited |-> Cardinality(vis), processed |-> n]
                      ELSE SiteRun(Tail(q) \o kids, vis \cup {NormalForm(e.url)},
                                   Append(out, [url |-> e.url, depth |-> e.depth,
                                                failed |-> o.kind = "fail",
                                                links |-> o.links]),
                                   n + 1)

C13_SameAsAlone ==
    Returned =>
        LET ref == SiteRun(<<[url |-> baseUrl, depth |-> 0]>>, {}, << >>, 0)
        IN  /\ ref.ok
            /\ Len(ref.pages) = Len(pages)
            /\ \A i \in PageIndexes :
                  /\ ref.pages[i].url = pages[i].urlRequested
                  /\ ref.pages[i].depth = pageDepth[i]
                  /\ ref.pages[i].failed = IsDegraded(pages[i])
                  /\ ~IsDegraded(pages[i]) => pages[i].links = ref.pages[i].links
            /\ ref.processed = processed
            /\ ref.uniqueVisited = Cardinality(visited)

C13_FrameStep ==
    IF active' = active
    THEN other' = other
    ELSE /\ other'.pc = pc /\ other'.baseUrl = baseUrl
         /\ other'.maxDepth = maxDepth /\ other'.maxPages = maxPages
         /\ other'.visited = visited /\ other'.pages = pages
         /\ other'.queue = queue /\ other'.processed = processed
         /\ other'.cur = cur /\ other'.details = details
         /\ other'.browser = browser /\ other'.openPages = openPages
         /\ pc' = other.pc /\ baseUrl' = other.baseUrl
         /\ maxDepth' = other.maxDepth /\ maxPages' = other.maxPages
         /\ visited' = other.visited /\ pages' = other.pages
         /\ queue' = other.queue /\ processed' = other.processed
         /\ cur' = other.cur /\ details' = other.details
         /\ browser' = other.browser /\ openPages' = other.openPages

C13_RunsIsolated == [][C13_FrameStep]_vars /\ [](C13_SameAsAlone)

\* this call has returned two records while the other call, on the same seed, is
\* suspended in the visit of its second page
C13_Witness ==
    /\ Returned
    /\ Len(pages) = 2
    /\ ~IsDegraded(pages[1])
    /\ other.pc = "cookies"
    /\ other.processed = 2
    /\ other.baseUrl = baseUrl
    /\ other.visited = visited
    /\ other.queue # << >>

----------------------------------------------------------------------------
(* C21: with maxDepth >= 0, maxPages >= 1 and an http(s) seed, the first    *)
(* step of the loop accepts the seed at depth 0 and counts it; a returned   *)
(* run has at least one record, the first one requested the seed, and       *)
(* processed >= 1. Only the seed's entry can be deeper than maxDepth, and   *)
(* only when maxDepth is negative.                                          *)

SeedAdmissible ==
    /\ baseUrl.scheme \in {"http", "https"}
    /\ maxDepth >= 0
    /\ maxPages >= 1

SeedEntry == [url |-> baseUrl, depth |-> 0]

C21_SeedState ==
    /\ (SeedAdmissible /\ Returned) =>
          /\ pages # << >>
          /\ pages[1].urlRequested = baseUrl
          /\ processed >= 1
    /\ (SeedAdmissible /\ pc = "loop" /\ processed = 0) => queue = <<SeedEntry>>
    /\ \A i \in 1..Len(queue) :
          queue[i].depth > maxDepth => (maxDepth < 0 /\ queue[i] = SeedEntry)

C21_SeedStep ==
    (SeedAdmissible /\ pc = "loop" /\ processed = 0) =>
        /\ pc' = "goto"
        /\ cur' = SeedEntry
        /\ processed' = 1
        /\ visited' = {NormalForm(baseUrl)}
        /\ queue' = << >>
        /\ pages' = << >>

C21_SeedFirst == [](C21_SeedState) /\ [][C21_SeedStep]_vars

\* maxDepth = 0 and maxPages = 1: the seed was visited, its links were not pushed,
\* and its record is the only one
C21_Witness ==
    /\ Returned
    /\ SeedAdmissible
    /\ maxDepth = 0
    /\ maxPages = 1
    /\ Len(pages) = 1
    /\ pages[1].urlRequested = baseUrl
    /\ ~IsDegraded(pages[1])
    /\ \E j \in 1..Len(pages[1].links) : InScope(pages[1].links[j])
    /\ processed = 1

====
